---------------------------- MODULE Spec2Model ----------------------------
(***************************************************************************)
(* A model of seo.py: WordPress page discovery (get_all_wordpress_urls),   *)
(* the per-page rule engine (analyze_html), the main loop that turns each  *)
(* fetch outcome into a report record, and the aggregation done by         *)
(* generate_html_report (counts, primary plugin, severity sort).           *)
(*                                                                         *)
(* Text is modelled as TLA+ strings; Python's str operations are operators *)
(* over them.  A page's markup is modelled by the element structure the    *)
(* HTML parser yields (doc) together with the raw text rendered from it,   *)
(* on which the code's plain substring scans run.                          *)
(***************************************************************************)
EXTENDS Integers, Sequences, FiniteSets, TLC

VARIABLES
    pc,             \* position of the running function
    endpoint,       \* get_all_wordpress_urls: index into endpoints
    page,           \* get_all_wordpress_urls: page number of the next request
    urls,           \* get_all_wordpress_urls: the list being returned
    queried,        \* history: the requests sent, each with its response
    retrieved,      \* history: item lists of the pages appended completely
    pages,          \* main: the discovered page references
    i,              \* main: 1-based index of the page being checked
    fetched,        \* history: the fetch outcome of each page checked
    reports,        \* history: the value of main's local `report` per page
    results,        \* main: the list of report records
    summary         \* generate_html_report: the computed totals (None before)

vars == <<pc, endpoint, page, urls, queried, retrieved,
          pages, i, fetched, reports, results, summary>>

(***************************************************************************)
(* Bounds of the model                                                     *)
(***************************************************************************)
MaxApiPages == 2    \* REST pages per collection that carry items
MaxPages == 3       \* page references main iterates over
MaxTitlePad == 2    \* title lengths run from 0 to 60 + MaxTitlePad
MaxImages == 6      \* img elements in one document
MaxScripts == 3     \* JSON-LD script elements in one document

(***************************************************************************)
(* Python values and str operations                                        *)
(***************************************************************************)
None == "<None>"

WhiteSpace == {" ", "\n", "\t"}

UpperToLower ==
    [c \in {"A","B","C","D","E","F","G","H","I","J","K","L","M",
            "N","O","P","Q","R","S","T","U","V","W","X","Y","Z"} |->
       CASE c = "A" -> "a" [] c = "B" -> "b" [] c = "C" -> "c" [] c = "D" -> "d"
         [] c = "E" -> "e" [] c = "F" -> "f" [] c = "G" -> "g" [] c = "H" -> "h"
         [] c = "I" -> "i" [] c = "J" -> "j" [] c = "K" -> "k" [] c = "L" -> "l"
         [] c = "M" -> "m" [] c = "N" -> "n" [] c = "O" -> "o" [] c = "P" -> "p"
         [] c = "Q" -> "q" [] c = "R" -> "r" [] c = "S" -> "s" [] c = "T" -> "t"
         [] c = "U" -> "u" [] c = "V" -> "v" [] c = "W" -> "w" [] c = "X" -> "x"
         [] c = "Y" -> "y" [] c = "Z" -> "z"]

LowerChar(c) == IF c \in DOMAIN UpperToLower THEN UpperToLower[c] ELSE c

\* s.lower()
RECURSIVE Lower(_)
Lower(s) ==
    IF Len(s) = 0 THEN ""
    ELSE IF Len(s) = 1 THEN LowerChar(s)
    ELSE Lower(SubSeq(s, 1, Len(s) \div 2)) \o Lower(SubSeq(s, Len(s) \div 2 + 1, Len(s)))

\* sub in s
Contains(s, sub) ==
    \E k \in 1..(Len(s) - Len(sub) + 1) : SubSeq(s, k, k + Len(sub) - 1) = sub

\* s.startswith(prefix)
StartsWith(s, prefix) ==
    Len(s) >= Len(prefix) /\ SubSeq(s, 1, Len(prefix)) = prefix

\* s.strip()
RECURSIVE Strip(_)
Strip(s) ==
    IF Len(s) = 0 THEN ""
    ELSE IF SubSeq(s, 1, 1) \in WhiteSpace THEN Strip(SubSeq(s, 2, Len(s)))
    ELSE IF SubSeq(s, Len(s), Len(s)) \in WhiteSpace
         THEN Strip(SubSeq(s, 1, Len(s) - 1))
    ELSE s

\* s[:n]
Take(s, n) == SubSeq(s, 1, IF Len(s) < n THEN Len(s) ELSE n)

\* sep.join(parts)
RECURSIVE Join(_, _)
Join(sep, parts) ==
    IF Len(parts) = 0 THEN ""
    ELSE IF Len(parts) = 1 THEN parts[1]
    ELSE parts[1] \o sep \o Join(sep, Tail(parts))

\* s.split('/')
RECURSIVE SplitSlash(_)
SplitSlash(s) ==
    IF \A k \in 1..Len(s) : SubSeq(s, k, k) # "/" THEN <<s>>
    ELSE LET k == CHOOSE k \in 1..Len(s) :
                      /\ SubSeq(s, k, k) = "/"
                      /\ \A j \in 1..(k - 1) : SubSeq(s, j, j) # "/"
         IN  <<SubSeq(s, 1, k - 1)>> \o SplitSlash(SubSeq(s, k + 1, Len(s)))

\* the concatenation of a sequence of sequences
RECURSIVE Flatten(_)
Flatten(ss) == IF Len(ss) = 0 THEN <<>> ELSE Head(ss) \o Flatten(Tail(ss))

(***************************************************************************)
(* get_all_wordpress_urls                                                  *)
(***************************************************************************)
BASE_URL == "https://example.com"

\* content_type = "post" if "posts" in endpoint else "page", per endpoint
endpoints == <<BASE_URL \o "/wp-json/wp/v2/posts", BASE_URL \o "/wp-json/wp/v2/pages">>

ContentType(e) == IF Contains(endpoints[e], "posts") THEN "post" ELSE "page"

\* The items a REST page can carry.  An item is a JSON object with a link
\* and, possibly, a title object holding the rendered title; a JSON value
\* that is no object (a string, a number) has no .get and makes the loop
\* raise.
ItemLink(e, p, k) ==
    BASE_URL \o "/" \o ContentType(e) \o "-" \o ToString(p) \o "-" \o ToString(k)

FullItem(e, p, k) ==
    [object |-> TRUE, link |-> ItemLink(e, p, k),
     title |-> [rendered |-> "Hello " \o ToString(k)]]

UntitledItem(e, p, k) == [object |-> TRUE, link |-> ItemLink(e, p, k)]

NonObjectItem == [object |-> FALSE]

ItemLists(e, p) ==
    { <<>>,
      <<FullItem(e, p, 1)>>,
      <<FullItem(e, p, 1), UntitledItem(e, p, 2)>>,
      <<FullItem(e, p, 1), NonObjectItem>>,
      <<NonObjectItem, FullItem(e, p, 2)>> }

\* What one requests.get can come to: an exception, or a response with a
\* status code and a body that is not JSON, a JSON object, or a JSON list.
Responses(e, p) ==
    { [raised |-> TRUE, status |-> 0, body |-> [json |-> FALSE]] }
    \cup { [raised |-> FALSE, status |-> st, body |-> [json |-> FALSE]] :
             st \in {200, 404, 500} }
    \cup { [raised |-> FALSE, status |-> 200, body |-> [json |-> TRUE, list |-> FALSE]] }
    \cup { [raised |-> FALSE, status |-> 200,
            body |-> [json |-> TRUE, list |-> TRUE, items |-> its]] :
             its \in ItemLists(e, p) }

\* response.ok
Ok(response) == response.status < 400

\* response.json() returns, rather than raising JSONDecodeError
IsJson(body) == body.json

\* isinstance(items, list)
IsList(body) == body.list

\* whether item.get exists
IsObject(item) == item.object

\* item.get('title', {}).get('rendered', 'No Title')
RenderedTitle(item) ==
    IF "title" \in DOMAIN item /\ "rendered" \in DOMAIN item.title
    THEN item.title.rendered ELSE "No Title"

\* the dict appended for one item (lines 67-71)
UrlEntry(item, content_type) ==
    [title |-> RenderedTitle(item), url |-> item.link, type |-> content_type]

\* for item in items: urls.append(...), up to the first item that raises
RECURSIVE AppendItems(_, _, _)
AppendItems(acc, items, content_type) ==
    IF Len(items) = 0 \/ ~IsObject(Head(items)) THEN acc
    ELSE AppendItems(Append(acc, UrlEntry(Head(items), content_type)),
                     Tail(items), content_type)

\* whether the body of the while loop ends in a break for this response
Stops(response, p) ==
    IF response.raised THEN TRUE
    ELSE IF response.status \in {400, 404} /\ p > 1 THEN TRUE
    ELSE IF ~Ok(response) THEN TRUE
    ELSE IF ~IsJson(response.body) THEN TRUE
    ELSE IF ~IsList(response.body) THEN TRUE
    ELSE IF Len(response.body.items) = 0 THEN TRUE
    ELSE \E k \in 1..Len(response.body.items) : ~IsObject(response.body.items[k])

\* whether the response's items reach the for loop at line 66
ReachesAppend(response) ==
    IF response.raised \/ ~Ok(response) THEN FALSE
    ELSE IF ~IsJson(response.body) THEN FALSE
    ELSE IF ~IsList(response.body) THEN FALSE
    ELSE Len(response.body.items) > 0

\* the endpoint the for loop at line 34 goes to after a break
AfterBreakReturns(e) == Len(endpoints) + 1

AfterBreak(e) == e + 1

InitDiscovery ==
    /\ pc = "request"
    /\ endpoint = 1
    /\ page = 1
    /\ urls = <<>>
    /\ queried = <<>>
    /\ retrieved = <<>>
    /\ pages = <<>>
    /\ i = 1
    /\ fetched = <<>>
    /\ reports = <<>>
    /\ results = <<>>
    /\ summary = None

mainVars == <<pages, i, fetched, reports, results, summary>>

\* One pass of the while loop at line 39: request a page, then either break
\* (to the next endpoint, or to the return) or append its items and go on.
\* A page beyond MaxApiPages carries no items.
RequestPage(response) ==
    /\ pc = "request"
    /\ endpoint <= Len(endpoints)
    /\ page > MaxApiPages => Stops(response, page)
    /\ queried' = Append(queried,
           [endpoint |-> endpoint, page |-> page, response |-> response])
    /\ urls' = IF ReachesAppend(response)
               THEN AppendItems(urls, response.body.items, ContentType(endpoint))
               ELSE urls
    /\ IF Stops(response, page)
       THEN /\ endpoint' = AfterBreak(endpoint)
            /\ page' = 1
            /\ retrieved' = retrieved
       ELSE /\ endpoint' = endpoint
            /\ page' = page + 1
            /\ retrieved' = Append(retrieved,
                   [type |-> ContentType(endpoint), items |-> response.body.items])
    /\ pc' = pc
    /\ UNCHANGED mainVars

\* return urls (line 81)
ReturnUrls ==
    /\ pc = "request"
    /\ endpoint > Len(endpoints)
    /\ pc' = "returned"
    /\ UNCHANGED <<endpoint, page, urls, queried, retrieved>>
    /\ UNCHANGED mainVars

NextDiscovery ==
    \/ /\ endpoint <= Len(endpoints)
       /\ \E response \in Responses(endpoint, page) : RequestPage(response)
    \/ ReturnUrls

SpecDiscovery == InitDiscovery /\ [][NextDiscovery]_vars

(***************************************************************************)
(* Markup.  doc is what the HTML parser finds in a page: the texts of its  *)
(* title and h1 elements, its meta elements (attr is the attribute that    *)
(* names the meta: name or property), its img elements, the strings of     *)
(* its JSON-LD script elements, the strings of its nav elements, the class *)
(* values of its elements and its comments.  An absent attribute or string *)
(* is None.  Render is the page's raw text.                                *)
(***************************************************************************)
Attr(name, value) == IF value = None THEN "" ELSE " " \o name \o "=\"" \o value \o "\""

RenderMeta(m) == "<meta " \o m.attr \o "=\"" \o m.key \o "\"" \o Attr("content", m.content) \o ">"

RenderImg(img) == "<img" \o Attr("src", img.src) \o Attr("alt", img.alt) \o ">"

RenderScript(text) ==
    "<script type=\"application/ld+json\">" \o (IF text = None THEN "" ELSE text) \o "</script>"

RenderNav(text) == "<nav>" \o (IF text = None THEN "<ul></ul>" ELSE text) \o "</nav>"

Render(doc) ==
    "<html><head>"
      \o Join("", [k \in 1..Len(doc.titles) |-> "<title>" \o doc.titles[k] \o "</title>"])
      \o Join("", [k \in 1..Len(doc.metas) |-> RenderMeta(doc.metas[k])])
      \o Join("", [k \in 1..Len(doc.comments) |-> "<!-- " \o doc.comments[k] \o " -->"])
      \o Join("", [k \in 1..Len(doc.scripts) |-> RenderScript(doc.scripts[k])])
      \o "</head><body>"
      \o Join("", [k \in 1..Len(doc.navs) |-> RenderNav(doc.navs[k])])
      \o Join("", [k \in 1..Len(doc.classes) |-> "<div class=\"" \o doc.classes[k] \o "\"></div>"])
      \o Join("", [k \in 1..Len(doc.h1s) |-> "<h1>" \o doc.h1s[k] \o "</h1>"])
      \o Join("", [k \in 1..Len(doc.imgs) |-> RenderImg(doc.imgs[k])])
      \o "</body></html>"

\* soup.find_all('meta', attrs={attr: key}); soup.find is its first element
FindAllMeta(doc, attr, key) ==
    SelectSeq(doc.metas, LAMBDA m : m.attr = attr /\ m.key = key)

\* the truth value of a str or None
Truthy(v) == v # None /\ v # ""

(***************************************************************************)
(* detect_seo_plugin                                                       *)
(***************************************************************************)
detect_seo_plugin(html) ==
    LET lower == Lower(html)
    IN  IF Contains(lower, "yoast") THEN "Yoast SEO"
        ELSE IF Contains(lower, "rank-math") \/ Contains(lower, "data-rank-math")
             THEN "Rank Math"
        ELSE IF Contains(lower, "aioseo") THEN "All in One SEO"
        ELSE None

(***************************************************************************)
(* analyze_html                                                            *)
(***************************************************************************)
\* the report dict as created at lines 101-116
InitialReport(seo_plugin) ==
    [title_tag |-> "", h1_count |-> 0, h1_text |-> "", meta_description |-> "Missing",
     noindex |-> FALSE, has_og |-> FALSE, has_twitter |-> FALSE,
     missing_alt_count |-> 0, missing_alt_images |-> <<>>,
     has_breadcrumb_schema |-> FALSE, has_breadcrumb_html |-> FALSE,
     issues |-> <<>>, issues_detail |-> <<>>, seo_plugin |-> seo_plugin]

\* report['issues'].append(issue); report['issues_detail'].append(detail)
AddIssue(report, issue, detail) ==
    [report EXCEPT !.issues = Append(@, issue), !.issues_detail = Append(@, detail)]

TitleTooShortInclusive(length) == length <= 30

TitleTooShort(length) == length < 30

TitleTooLong(length) == length > 60

\* === Page Title ===
TitleRule(report, doc) ==
    IF Len(doc.titles) > 0
    THEN LET text == Strip(doc.titles[1])
             length == Len(text)
             r == [report EXCEPT !.title_tag = text]
         IN  IF TitleTooShort(length)
             THEN AddIssue(r, "Title too short",
                      "Title too short (" \o ToString(length) \o " chars): " \o text)
             ELSE IF TitleTooLong(length)
             THEN AddIssue(r, "Title too long",
                      "Title too long (" \o ToString(length) \o " chars): " \o text)
             ELSE r
    ELSE AddIssue(report, "Missing <title>", "Missing <title> tag")

\* === H1 ===
H1Rule(report, doc) ==
    LET r == [report EXCEPT !.h1_count = Len(doc.h1s)]
    IN  IF Len(doc.h1s) > 0
        THEN LET r2 == [r EXCEPT !.h1_text = Strip(doc.h1s[1])]
             IN  IF r2.h1_count > 1
                 THEN AddIssue(r2, "Multiple H1s",
                          "Multiple H1s (" \o ToString(r2.h1_count) \o "): "
                              \o Take(r2.h1_text, 50) \o "...")
                 ELSE r2
        ELSE AddIssue(r, "Missing H1", "No H1 tag found")

\* === Meta Description ===
MetaDescriptionRule(report, doc) ==
    LET meta_desc == FindAllMeta(doc, "name", "description")
    IN  IF Len(meta_desc) > 0 /\ Truthy(meta_desc[1].content)
        THEN LET desc == Strip(meta_desc[1].content)
                 r == [report EXCEPT !.meta_description = desc]
             IN  IF Len(desc) < 50
                 THEN AddIssue(r, "Meta desc too short",
                          "Meta description too short (" \o ToString(Len(desc)) \o " chars)")
                 ELSE IF Len(desc) > 160
                 THEN AddIssue(r, "Meta desc too long",
                          "Meta description too long (" \o ToString(Len(desc)) \o " chars)")
                 ELSE r
        ELSE AddIssue(report, "Missing meta description", "Missing meta description tag")

\* === noindex ===
NoIndexRule(report, html) ==
    IF LET lower == Lower(html)
       IN  \/ Contains(lower, "<meta name=\"robots\" content=\"noindex")
           \/ Contains(lower, "content=\"noindex")
    THEN AddIssue([report EXCEPT !.noindex = TRUE], "NOINDEX", "Page is set to NOINDEX")
    ELSE report

\* === Open Graph & Twitter ===
OpenGraphRule(report, doc) ==
    IF Len(FindAllMeta(doc, "property", "og:title")) > 0
    THEN [report EXCEPT !.has_og = TRUE]
    ELSE AddIssue(report, "Missing OG", "Missing Open Graph tags")

TwitterRule(report, doc) ==
    IF Len(FindAllMeta(doc, "name", "twitter:card")) > 0
    THEN [report EXCEPT !.has_twitter = TRUE]
    ELSE AddIssue(report, "Missing Twitter Card", "Missing Twitter Card meta tag")

\* urllib.parse.urljoin(base, src) for a base that is an origin (no path):
\* a src with a scheme stands, a //host src takes the base's scheme, any
\* other src is a path under the origin
urljoin(base, src) ==
    IF Contains(src, "://") THEN src
    ELSE IF StartsWith(src, "//") THEN Head(SplitSlash(base)) \o src
    ELSE IF StartsWith(src, "/") THEN base \o src
    ELSE base \o "/" \o src

\* '/'.join(url.split('/')[:3])
BaseDomain(url) == Join("/", Take(SplitSlash(url), 3))

\* img.get('alt', '').strip()
AltOf(img) == IF img.alt = None THEN "" ELSE Strip(img.alt)

\* the loop at lines 184-196: the resolved URLs of the images that have a
\* src, are no placeholder or spacer, and have no alt text
RECURSIVE MissingAlt(_, _)
MissingAlt(images, base_domain) ==
    IF Len(images) = 0 THEN <<>>
    ELSE LET img == Head(images)
             rest == MissingAlt(Tail(images), base_domain)
         IN  IF ~Truthy(img.src) THEN rest
             ELSE IF Contains(img.src, "data:image/gif;base64")
                       \/ Contains(Lower(img.src), "spacer") THEN rest
             ELSE IF ~Truthy(AltOf(img)) THEN <<urljoin(base_domain, img.src)>> \o rest
             ELSE rest

HasMoreInclusive(missing_alt) == Len(missing_alt) >= 5

\* len(missing_alt) > 5
HasMore(missing_alt) == Len(missing_alt) > 5

\* the detail lines appended at lines 202-205
ImageDetails(missing_alt) ==
    [k \in 1..Len(Take(missing_alt, 5)) |-> "Image missing alt: " \o missing_alt[k]]
      \o (IF HasMore(missing_alt)
          THEN <<"... and " \o ToString(Len(missing_alt) - 5) \o " more">>
          ELSE <<>>)

\* === Image Alt Text ===
ImageAltRule(report, doc, base_domain) ==
    LET missing_alt == MissingAlt(doc.imgs, base_domain)
        r == [report EXCEPT !.missing_alt_count = Len(missing_alt),
                            !.missing_alt_images = missing_alt]
    IN  IF Len(missing_alt) > 0
        THEN [r EXCEPT !.issues = Append(@, ToString(Len(missing_alt)) \o " images missing alt"),
                       !.issues_detail = @ \o ImageDetails(missing_alt)]
        ELSE r

RECURSIVE ScanScriptsAbortOnNone(_)
ScanScriptsAbortOnNone(scripts) ==
    IF Len(scripts) = 0 THEN FALSE
    ELSE IF Head(scripts) = None THEN FALSE
    ELSE IF Contains(Head(scripts), "\"@type\":\"BreadcrumbList\"") THEN TRUE
    ELSE ScanScriptsAbortOnNone(Tail(scripts))

\* the loop at lines 209-215: a script whose string is None (an empty
\* body) raises inside the try and the bare except goes on to the next
\* script; the first script whose string holds the literal ends the loop
RECURSIVE ScanScripts(_)
ScanScripts(scripts) ==
    IF Len(scripts) = 0 THEN FALSE
    ELSE IF Head(scripts) = None THEN ScanScripts(Tail(scripts))
    ELSE IF Contains(Head(scripts), "\"@type\":\"BreadcrumbList\"") THEN TRUE
    ELSE ScanScripts(Tail(scripts))

\* === Breadcrumb Schema ===
BreadcrumbSchemaRule(report, doc) ==
    LET r == [report EXCEPT !.has_breadcrumb_schema = ScanScripts(doc.scripts)]
    IN  IF ~r.has_breadcrumb_schema
        THEN AddIssue(r, "Missing breadcrumb schema", "Missing breadcrumb schema (JSON-LD)")
        ELSE r

\* === Breadcrumb HTML ===
BreadcrumbHtmlRule(report, doc) ==
    LET breadcrumbs ==
            SelectSeq(doc.navs, LAMBDA x : Truthy(x) /\ Contains(Lower(x), "breadcrumb"))
              \o SelectSeq(doc.classes,
                           LAMBDA x : Truthy(x) /\ Contains(Lower(x), "breadcrumb"))
    IN  IF Len(breadcrumbs) > 0 THEN [report EXCEPT !.has_breadcrumb_html = TRUE]
        ELSE report

\* report['status'] = "OK" if not report['issues'] else "ISSUE"
WithStatus(report) ==
    [f \in DOMAIN report \cup {"status"} |->
       IF f = "status" THEN (IF Len(report.issues) = 0 THEN "OK" ELSE "ISSUE")
       ELSE report[f]]

analyze_html(doc, url) ==
    LET html == Render(doc)
        base_domain == BaseDomain(url)
        r0 == InitialReport(detect_seo_plugin(html))
        r1 == TitleRule(r0, doc)
        r2 == H1Rule(r1, doc)
        r3 == MetaDescriptionRule(r2, doc)
        r4 == NoIndexRule(r3, html)
        r5 == OpenGraphRule(r4, doc)
        r6 == TwitterRule(r5, doc)
        r7 == ImageAltRule(r6, doc, base_domain)
        r8 == BreadcrumbSchemaRule(r7, doc)
        r9 == BreadcrumbHtmlRule(r8, doc)
    IN  WithStatus(r9)

(***************************************************************************)
(* Documents the model analyses                                            *)
(***************************************************************************)
Meta(attr, key, content) == [attr |-> attr, key |-> key, content |-> content]

GoodDescription ==
    Meta("name", "description",
         "Learn how to grow tomatoes at home, from seed to harvest, in ten steps.")

OgTitle == Meta("property", "og:title", "Growing Tomatoes")

TwitterCard == Meta("name", "twitter:card", "summary")

Robots(content) == Meta("name", "robots", content)

BreadcrumbJson == "{\"@context\":\"https://schema.org\",\"@type\":\"BreadcrumbList\"}"

Img(src, alt) == [src |-> src, alt |-> alt]

\* a page that raises no issue
CleanDoc ==
    [titles |-> <<"A Complete Guide to Growing Tomatoes">>,
     h1s |-> <<"Growing Tomatoes">>,
     metas |-> <<GoodDescription, OgTitle, TwitterCard>>,
     imgs |-> <<Img("/img/tomato.jpg", "A ripe tomato")>>,
     scripts |-> <<BreadcrumbJson>>,
     navs |-> <<None>>,
     classes |-> <<"site-header", "Breadcrumbs">>,
     comments |-> <<>>]

\* n copies of the character c
RECURSIVE Rep(_, _)
Rep(c, n) ==
    IF n = 0 THEN ""
    ELSE IF n = 1 THEN c
    ELSE Rep(c, n \div 2) \o Rep(c, n - n \div 2)

\* title elements: none, one of every length up to 60 + MaxTitlePad with or
\* without surrounding white space, and a short one followed by a second
TitleLists ==
    { <<>> }
    \cup { <<Rep(" ", lead) \o Rep("a", n) \o Rep("\n", trail)>> :
             n \in 0..(60 + MaxTitlePad), lead \in 0..1, trail \in 0..1 }
    \cup { <<"Tomatoes", "A Complete Guide to Growing Tomatoes">> }

\* the img elements that can stand at position k of a document
ImgsAt(k) ==
    { Img("/img/a" \o ToString(k) \o ".jpg", None),
      Img("/img/Spacer" \o ToString(k) \o ".gif", None),
      Img("/img/c" \o ToString(k) \o ".jpg", "Photo") }

\* the lists of exactly n img elements
RECURSIVE ImgListsOfLen(_)
ImgListsOfLen(n) ==
    IF n = 0 THEN { <<>> }
    ELSE { Append(imgs, img) : imgs \in ImgListsOfLen(n - 1), img \in ImgsAt(n) }

ImgLists ==
    UNION { ImgListsOfLen(n) : n \in 0..MaxImages }
    \cup { << Img("data:image/gif;base64,AAAA", None),
              Img("https://cdn.example.net/b.png", "  "),
              Img(None, None),
              Img("", ""),
              Img("//cdn.example.net/d.png", ""),
              Img("img/photo.jpg", None) >> }

\* the strings of JSON-LD script elements: None for an empty body, a
\* truncated body, a BreadcrumbList, another type, and a BreadcrumbList
\* written with a space after the colon
ScriptStrings ==
    { None,
      "{\"@context\":",
      BreadcrumbJson,
      "{\"@type\":\"Article\"}",
      "{\"@type\": \"BreadcrumbList\"}" }

RECURSIVE ScriptListsOfLen(_)
ScriptListsOfLen(n) ==
    IF n = 0 THEN { <<>> }
    ELSE { Append(scripts, x) : scripts \in ScriptListsOfLen(n - 1), x \in ScriptStrings }

ScriptLists == UNION { ScriptListsOfLen(n) : n \in 0..MaxScripts }

PageUrl == "https://example.com/blog/post"

AnalyzeDocs ==
    { [CleanDoc EXCEPT !.titles = t] : t \in TitleLists }
    \cup { [CleanDoc EXCEPT !.imgs = imgs] : imgs \in ImgLists }
    \cup { [CleanDoc EXCEPT !.scripts = scripts] : scripts \in ScriptLists }

(***************************************************************************)
(* analyze_html applied to one document                                    *)
(***************************************************************************)
discoveryVars == <<endpoint, page, urls, queried, retrieved>>

InitAnalyze ==
    /\ pc = "analyze"
    /\ endpoint = 1 /\ page = 1 /\ urls = <<>> /\ queried = <<>> /\ retrieved = <<>>
    /\ pages = <<[title |-> "Post", url |-> PageUrl, type |-> "post"]>>
    /\ i = 1
    /\ \E doc \in AnalyzeDocs : fetched = <<[ok |-> TRUE, doc |-> doc]>>
    /\ reports = <<>>
    /\ results = <<>>
    /\ summary = None

Analyze ==
    /\ pc = "analyze"
    /\ reports' = <<analyze_html(fetched[1].doc, pages[1].url)>>
    /\ pc' = "analyzed"
    /\ UNCHANGED <<pages, i, fetched, results, summary>>
    /\ UNCHANGED discoveryVars

NextAnalyze == Analyze

SpecAnalyze == InitAnalyze /\ [][NextAnalyze]_vars

(***************************************************************************)
(* main: one report record per page                                        *)
(***************************************************************************)
\* the report main substitutes when the fetch raises (lines 510-525)
DegradedReport(reason) ==
    [title_tag |-> "", h1_count |-> 0, h1_text |-> "", meta_description |-> "",
     noindex |-> FALSE, has_og |-> FALSE, has_twitter |-> FALSE,
     missing_alt_count |-> 0, missing_alt_images |-> <<>>,
     has_breadcrumb_schema |-> FALSE, has_breadcrumb_html |-> FALSE,
     issues |-> <<"Failed to load: " \o reason>>,
     issues_detail |-> <<"Failed to load: " \o reason>>,
     seo_plugin |-> None]

YesNo(b) == IF b THEN "Yes" ELSE "No"

\* the dict appended to results (lines 527-545)
MakeRecord(ref, report) ==
    [Type |-> ref.type,
     Title |-> ref.title,
     URL |-> ref.url,
     PageTitle |-> report.title_tag,
     H1Count |-> report.h1_count,
     H1Text |-> report.h1_text,
     MetaDescription |-> report.meta_description,
     NoIndex |-> YesNo(report.noindex),
     OGTags |-> YesNo(report.has_og),
     TwitterCard |-> YesNo(report.has_twitter),
     MissingAltCount |-> report.missing_alt_count,
     MissingAltImageURLs |-> Join("; ", report.missing_alt_images),
     BreadcrumbSchema |-> YesNo(report.has_breadcrumb_schema),
     BreadcrumbHTML |-> YesNo(report.has_breadcrumb_html),
     SEOPlugin |-> IF Truthy(report.seo_plugin) THEN report.seo_plugin ELSE "Unknown",
     IssuesSummary |-> IF Len(report.issues) > 0 THEN Join("; ", report.issues) ELSE "OK",
     IssuesDetail |-> Join(" | ", report.issues_detail)]

(***************************************************************************)
(* generate_html_report: counts, primary plugin, severity order            *)
(***************************************************************************)
\* the condition of meta_good += 1 (lines 240-244)
MetaGood(r) ==
    LET issues == r.IssuesDetail
        has_missing == Contains(issues, "Missing meta description tag")
        has_short == Contains(issues, "Meta description too short")
        has_long == Contains(issues, "Meta description too long")
    IN  ~has_missing /\ ~has_short /\ ~has_long /\ r.MetaDescription # "Missing"

\* the test of the "Critical" total and of the red row colour
IsCritical(r) ==
    Contains(Lower(r.IssuesDetail), "noindex") \/ Contains(r.IssuesDetail, "Missing H1")

\* def severity(r) (lines 256-261)
severity(r) ==
    IF IsCritical(r) THEN 2
    ELSE IF Contains(r.IssuesSummary, "OK") THEN 0
    ELSE 1

\* plugins.count(p)
PluginCount(plugins, p) == Len(SelectSeq(plugins, LAMBDA x : x = p))

\* the values max(set(plugins), key=plugins.count) can return: a most
\* frequent one, and among equally frequent ones whichever the set yields
\* first
PrimaryPlugins(rs) ==
    LET plugins == SelectSeq([k \in 1..Len(rs) |-> rs[k].SEOPlugin], Truthy)
        values == { plugins[k] : k \in 1..Len(plugins) }
    IN  IF Len(plugins) = 0 THEN { None }
        ELSE { p \in values :
                 \A q \in values : PluginCount(plugins, q) <= PluginCount(plugins, p) }

InsertBeforeEqual(sorted, r) ==
    LET before == SelectSeq(sorted, LAMBDA x : severity(x) > severity(r))
        after == SelectSeq(sorted, LAMBDA x : severity(x) <= severity(r))
    IN  before \o <<r>> \o after

\* one step of the stable sort: r goes behind every record sorted so far
\* whose key is not smaller
InsertBySeverity(sorted, r) ==
    LET before == SelectSeq(sorted, LAMBDA x : severity(x) >= severity(r))
        after == SelectSeq(sorted, LAMBDA x : severity(x) < severity(r))
    IN  before \o <<r>> \o after

\* results.sort(key=severity, reverse=True)
RECURSIVE SortBySeverity(_, _)
SortBySeverity(sorted, rest) ==
    IF Len(rest) = 0 THEN sorted
    ELSE SortBySeverity(InsertBySeverity(sorted, Head(rest)), Tail(rest))

\* the totals generate_html_report computes (lines 232-253, 332, 336)
ReportTotals(rs, primary_plugin) ==
    [total_pages |-> Len(rs),
     clean_pages |-> Len(SelectSeq(rs, LAMBDA r : r.IssuesSummary = "OK")),
     has_h1_ok |-> Len(SelectSeq(rs, LAMBDA r : ~Contains(r.IssuesDetail, "Missing H1"))),
     title_good |-> Len(SelectSeq(rs, LAMBDA r : /\ ~Contains(r.IssuesDetail, "Title too short")
                                         /\ ~Contains(r.IssuesDetail, "Title too long"))),
     meta_good |-> Len(SelectSeq(rs, MetaGood)),
     og_good |-> Len(SelectSeq(rs, LAMBDA r : ~Contains(r.IssuesDetail, "Missing OG"))),
     twitter_good |-> Len(SelectSeq(rs, LAMBDA r : ~Contains(r.IssuesDetail, "Missing Twitter Card"))),
     schema_good |-> Len(SelectSeq(rs, LAMBDA r : ~Contains(r.IssuesDetail, "Missing breadcrumb schema"))),
     primary_plugin |-> primary_plugin,
     with_issues |-> Len(SelectSeq(rs, LAMBDA r : r.IssuesSummary # "OK")),
     critical |-> Len(SelectSeq(rs, IsCritical))]

(***************************************************************************)
(* The site main audits                                                    *)
(***************************************************************************)
NoIndexDoc == [CleanDoc EXCEPT !.metas = <<Robots("noindex, follow")>> \o @]

NoH1Doc == [CleanDoc EXCEPT !.h1s = <<>>]

NoindexTitleDoc == [CleanDoc EXCEPT !.titles = <<"Noindex tips">>]

NoOgYoastDoc ==
    [CleanDoc EXCEPT !.metas = <<GoodDescription, TwitterCard>>,
                     !.comments = <<"This site is optimized with the Yoast SEO plugin">>]

RankMathDoc == [CleanDoc EXCEPT !.comments = <<"Search Engine Optimization by Rank-Math">>]

TwoImagesDoc ==
    [CleanDoc EXCEPT !.imgs = <<Img("/img/a.jpg", None), Img("/img/b.jpg", "")>>,
                     !.metas = <<Meta("name", "description", ""), OgTitle, TwitterCard>>]

SiteDocs == { CleanDoc, NoIndexDoc, NoH1Doc, NoindexTitleDoc, NoOgYoastDoc, RankMathDoc,
              TwoImagesDoc }

\* str(e) of what requests.get or raise_for_status raises
FailReasons == { "Read timed out.", "404 Client Error: Not Found for url" }

Outcomes ==
    { [ok |-> TRUE, doc |-> d] : d \in SiteDocs }
    \cup { [ok |-> FALSE, reason |-> e] : e \in FailReasons }

\* the k-th page reference of a site of n pages: posts come before pages
PageRefAt(k, n) ==
    [title |-> "Hello " \o ToString(k),
     url |-> BASE_URL \o "/article-" \o ToString(k),
     type |-> IF 2 * k <= n + 1 THEN "post" ELSE "page"]

\* analyze_html is a function of the document and the URL: its values for
\* the site's documents, computed once
SiteReports ==
    [d \in SiteDocs, k \in 1..(MaxPages + 1) |-> analyze_html(d, PageRefAt(k, k).url)]

InitMain ==
    /\ pc = "check"
    /\ endpoint = 1 /\ page = 1 /\ urls = <<>> /\ queried = <<>> /\ retrieved = <<>>
    /\ \E n \in 0..MaxPages : pages = [k \in 1..n |-> PageRefAt(k, n)]
    /\ i = 1
    /\ fetched = <<>>
    /\ reports = <<>>
    /\ results = <<>>
    /\ summary = None

\* if not pages: return (lines 496-498)
NoPages ==
    /\ pc = "check"
    /\ Len(pages) = 0
    /\ pc' = "no_pages"
    /\ UNCHANGED <<pages, i, fetched, reports, results, summary>>
    /\ UNCHANGED discoveryVars

PrependRecord(rs, record) == <<record>> \o rs

\* results.append({...}) (line 527)
AppendRecord(rs, record) == Append(rs, record)

\* one pass of the loop at line 503: fetch the page, analyse it or
\* substitute the degraded report, append the record
CheckPage(outcome) ==
    /\ pc = "check"
    /\ Len(pages) > 0
    /\ i <= Len(pages)
    /\ LET report == IF outcome.ok THEN SiteReports[outcome.doc, i]
                     ELSE DegradedReport(outcome.reason)
       IN  /\ reports' = Append(reports, report)
           /\ results' = AppendRecord(results, MakeRecord(pages[i], report))
    /\ fetched' = Append(fetched, outcome)
    /\ i' = i + 1
    /\ pc' = IF i = Len(pages) THEN "report" ELSE "check"
    /\ UNCHANGED <<pages, summary>>
    /\ UNCHANGED discoveryVars

\* generate_html_report(results, BASE_URL): the totals, then the sort of
\* results in place
GenerateHtmlReport(primary_plugin) ==
    /\ pc = "report"
    /\ primary_plugin \in PrimaryPlugins(results)
    /\ summary' = ReportTotals(results, primary_plugin)
    /\ results' = SortBySeverity(<<>>, results)
    /\ pc' = "reported"
    /\ UNCHANGED <<pages, i, fetched, reports>>
    /\ UNCHANGED discoveryVars

\* the closing summary of main (lines 567-573)
PrintSummary ==
    /\ pc = "reported"
    /\ LET issues == Len(SelectSeq(results, LAMBDA r : r.IssuesSummary # "OK"))
           critical == Len(SelectSeq(results, IsCritical))
       IN  summary' = [summary EXCEPT !.with_issues = issues, !.critical = critical]
    /\ pc' = "done"
    /\ UNCHANGED <<pages, i, fetched, reports, results>>
    /\ UNCHANGED discoveryVars

Next ==
    \/ NoPages
    \/ \E outcome \in Outcomes : CheckPage(outcome)
    \/ \E primary_plugin \in {None, "Unknown", "Yoast SEO", "Rank Math", "All in One SEO"} :
         GenerateHtmlReport(primary_plugin)
    \/ PrintSummary

Spec == InitMain /\ [][Next]_vars

(***************************************************************************)
(* Properties of the report                                                *)
(***************************************************************************)
Reported == pc \in {"reported", "done"}

\* the crawl position of a record: its URL is that of exactly one page
CrawlIndex(r) == CHOOSE k \in 1..Len(pages) : pages[k].url = r.URL

\* the finding a record was made from
ReportOf(r) == reports[CrawlIndex(r)]

\* C2: every page whose finding has h1_count = 0 or noindex set is ranked
\* CRITICAL (2) by severity, and a page whose markup has no h1 element has
\* the issue "Missing H1".
C2_ZeroH1OrNoIndexIsCritical ==
    Reported =>
      \A k \in 1..Len(results) :
        LET f == ReportOf(results[k])
        IN  /\ (f.h1_count = 0 \/ f.noindex) => severity(results[k]) = 2
            /\ (fetched[CrawlIndex(results[k])].ok /\ f.h1_count = 0) =>
                 \E j \in 1..Len(f.issues) : f.issues[j] = "Missing H1"

\* C3: a page with noindex false and h1_count >= 1 is never ranked CRITICAL,
\* and a page with a non-empty issues list is never ranked OK (0).
C3_SeverityFromFieldsOnly ==
    Reported =>
      \A k \in 1..Len(results) :
        LET f == ReportOf(results[k])
        IN  /\ (~f.noindex /\ f.h1_count >= 1) => severity(results[k]) # 2
            /\ Len(f.issues) > 0 => severity(results[k]) # 0

\* the records in crawl order
CrawlRecords == [k \in 1..Len(pages) |-> MakeRecord(pages[k], reports[k])]

\* C4: after the sort the records are a permutation of the crawl records,
\* in descending severity, and records of equal severity are in crawl order.
C4_StableSeveritySort ==
    Reported =>
      /\ Len(results) = Len(pages)
      /\ \A k \in 1..Len(pages) :
           Cardinality({ j \in 1..Len(results) : results[j] = CrawlRecords[k] }) = 1
      /\ \A a, b \in 1..Len(results) :
           a < b => /\ severity(results[a]) >= severity(results[b])
                    /\ severity(results[a]) = severity(results[b]) =>
                         CrawlIndex(results[a]) < CrawlIndex(results[b])

\* the crawl order was WARNING, CRITICAL, WARNING: the sort moved a page
\* forward and kept a tie in place
C4_Witness ==
    /\ Reported
    /\ Len(pages) = 3
    /\ severity(CrawlRecords[1]) = 1
    /\ severity(CrawlRecords[2]) = 2
    /\ severity(CrawlRecords[3]) = 1
    /\ results = <<CrawlRecords[2], CrawlRecords[1], CrawlRecords[3]>>

\* the fields of a finding other than its issue lists
OtherFields == DOMAIN InitialReport(None) \ {"issues", "issues_detail"}

\* C5: the finding substituted for a page whose fetch failed has the single
\* issue "Failed to load: <reason>" and every other field as analyze_html
\* initialises it; the loop goes on to the next page.
C5_DegradedFindingIsDefault ==
    \A k \in 1..Len(reports) :
      ~fetched[k].ok =>
        /\ reports[k].issues = <<"Failed to load: " \o fetched[k].reason>>
        /\ \A f \in OtherFields : reports[k][f] = InitialReport(None)[f]
        /\ k < Len(pages) => i > k

\* the plugins the pages' findings detected
DetectedPlugins ==
    SelectSeq([k \in 1..Len(reports) |-> reports[k].seo_plugin], LAMBDA x : x # None)

\* C7: the primary plugin is a most frequent value among the detected
\* plugins of the pages, and None when no page detected a plugin.
C7_PrimaryPluginIsModeOfDetected ==
    Reported =>
      IF Len(DetectedPlugins) = 0 THEN summary.primary_plugin = None
      ELSE /\ \E k \in 1..Len(DetectedPlugins) : DetectedPlugins[k] = summary.primary_plugin
           /\ \A k \in 1..Len(DetectedPlugins) :
                PluginCount(DetectedPlugins, DetectedPlugins[k])
                  <= PluginCount(DetectedPlugins, summary.primary_plugin)

\* whether the page of a record has a meta description of 50 to 160
\* characters
HasWellSizedDescription(r) ==
    LET k == CrawlIndex(r)
    IN  IF ~fetched[k].ok THEN FALSE
        ELSE LET found == SelectSeq(fetched[k].doc.metas,
                                    LAMBDA m : m.attr = "name" /\ m.key = "description")
             IN  IF Len(found) = 0 THEN FALSE
                 ELSE IF found[1].content = None THEN FALSE
                 ELSE /\ Len(Strip(found[1].content)) >= 50
                      /\ Len(Strip(found[1].content)) <= 160

\* C8: a page is counted in meta_good only if its meta description exists
\* and is 50 to 160 characters long; a page whose fetch failed is not counted.
C8_MetaGoodOnlyWellSized ==
    Reported =>
      /\ \A k \in 1..Len(results) : MetaGood(results[k]) => HasWellSizedDescription(results[k])
      /\ summary.meta_good =
           Cardinality({ k \in 1..Len(results) : MetaGood(results[k]) })
      /\ summary.meta_good <=
           Cardinality({ k \in 1..Len(results) : HasWellSizedDescription(results[k]) })

\* the number of pages whose finding satisfies a flag
PagesWithH1 == Cardinality({ k \in 1..Len(reports) : reports[k].h1_count >= 1 })

PagesWithOpenGraph == Cardinality({ k \in 1..Len(reports) : reports[k].has_og })

PagesWithTwitterCard == Cardinality({ k \in 1..Len(reports) : reports[k].has_twitter })

PagesWithBreadcrumbSchema ==
    Cardinality({ k \in 1..Len(reports) : reports[k].has_breadcrumb_schema })

\* C12: each pass count of the report summary is the number of pages whose
\* finding passes the rule: H1 (h1_count >= 1), Open Graph (has_og), Twitter
\* Card (has_twitter), breadcrumb schema (has_breadcrumb_schema).
C12_PassCountsMatchFindings ==
    Reported =>
      /\ summary.has_h1_ok = PagesWithH1
      /\ summary.og_good = PagesWithOpenGraph
      /\ summary.twitter_good = PagesWithTwitterCard
      /\ summary.schema_good = PagesWithBreadcrumbSchema

(***************************************************************************)
(* Properties of the main loop                                             *)
(***************************************************************************)
InLoop == pc \in {"check", "report"}

\* the fields of a record that come from the finding, not from the PageRef
FindingFields == DOMAIN MakeRecord(PageRefAt(1, 1), InitialReport(None)) \ {"Type", "Title", "URL"}

SameFinding(r1, r2) == \A f \in FindingFields : r1[f] = r2[f]

\* one record per page checked so far, at the page's crawl position, and
\* equal findings for equal fetch outcomes wherever the pages stand
OneRecordPerPage ==
    InLoop =>
      /\ Len(results) = i - 1
      /\ Len(results) = Len(fetched)
      /\ pc = "report" => Len(results) = Len(pages)
      /\ \A k \in 1..Len(results) :
           /\ results[k].URL = pages[k].url
           /\ results[k].Title = pages[k].title
           /\ results[k].Type = pages[k].type
      /\ \A a, b \in 1..Len(results) :
           fetched[a] = fetched[b] => SameFinding(results[a], results[b])

\* C11: the loop produces one record per page reference, in crawl order;
\* a page's record depends on its own fetch outcome only (equal outcomes
\* give equal findings whatever the other pages did), and checking a later
\* page, whatever its outcome, leaves the earlier records as they are.
C11_OneRecordPerPageIndependent ==
    [][ /\ OneRecordPerPage'
        /\ pc = "check" => \A k \in 1..Len(results) : /\ k <= Len(results')
                                                      /\ results'[k] = results[k]
      ]_vars

\* three pages checked: the second failed, the first and the third had the
\* same markup and have the same finding
C11_Witness ==
    /\ pc = "report"
    /\ Len(pages) = 3
    /\ Len(results) = 3
    /\ fetched[1].ok /\ ~fetched[2].ok /\ fetched[3] = fetched[1]
    /\ SameFinding(results[1], results[3])
    /\ results[2].IssuesSummary = "Failed to load: " \o fetched[2].reason

(***************************************************************************)
(* Properties of analyze_html                                              *)
(***************************************************************************)
Analyzed == pc = "analyzed"

AnalyzedDoc == fetched[1].doc

AnalyzedReport == reports[1]

\* C1: issues and issues_detail of the finding analyze_html returns have
\* the same length, for every markup.
C1_IssuesDetailAligned ==
    Analyzed => Len(AnalyzedReport.issues) = Len(AnalyzedReport.issues_detail)

TitleIssueNames == {"Title too short", "Title too long", "Missing <title>"}

TitleIssues(report) == SelectSeq(report.issues, LAMBDA x : x \in TitleIssueNames)

\* C9: with n the length of the first title element's stripped text, n < 30
\* raises exactly "Title too short", n > 60 exactly "Title too long", 30 to
\* 60 no title issue; no title element raises "Missing <title>"; never more
\* than one title issue; the stripped text is recorded when the element is
\* present; the detail of a length issue gives the count and the text.
C9_TitleLengthRule ==
    Analyzed =>
      LET titles == AnalyzedDoc.titles
          r == AnalyzedReport
      IN  /\ Len(TitleIssues(r)) <= 1
          /\ titles = <<>> => TitleIssues(r) = <<"Missing <title>">> /\ r.title_tag = ""
          /\ titles # <<>> =>
               LET text == Strip(titles[1])
                   n == Len(text)
               IN  /\ r.title_tag = text
                   /\ n < 30 => /\ TitleIssues(r) = <<"Title too short">>
                                /\ r.issues_detail[1] =
                                     "Title too short (" \o ToString(n) \o " chars): " \o text
                   /\ n > 60 => /\ TitleIssues(r) = <<"Title too long">>
                                /\ r.issues_detail[1] =
                                     "Title too long (" \o ToString(n) \o " chars): " \o text
                   /\ (30 <= n /\ n <= 60) => TitleIssues(r) = <<>>

\* titles of 29, 30, 60 and 61 characters and a missing title were analysed
C9_Witness29 ==
    /\ Analyzed /\ AnalyzedDoc.titles # <<>> /\ Len(AnalyzedReport.title_tag) = 29
    /\ Len(AnalyzedDoc.titles[1]) = 31
    /\ AnalyzedReport.issues = <<"Title too short">>

\* the indices of the img elements that have a src, are neither a base64
\* GIF nor a spacer, and have no alt text
NonExemptMissing(doc) ==
    { k \in 1..Len(doc.imgs) :
        /\ doc.imgs[k].src # None /\ doc.imgs[k].src # ""
        /\ ~Contains(doc.imgs[k].src, "data:image/gif;base64")
        /\ ~Contains(Lower(doc.imgs[k].src), "spacer")
        /\ doc.imgs[k].alt = None \/ Strip(doc.imgs[k].alt) = "" }

\* the elements of a finite set of numbers in increasing order
RECURSIVE Ascending(_)
Ascending(S) ==
    IF S = {} THEN <<>>
    ELSE LET m == CHOOSE x \in S : \A y \in S : x <= y
         IN  <<m>> \o Ascending(S \ {m})

ImageIssues(report) ==
    SelectSeq(report.issues, LAMBDA x : Contains(x, "images missing alt"))

ImageDetailLines(report) ==
    SelectSeq(report.issues_detail,
              LAMBDA x : StartsWith(x, "Image missing alt: ") \/ StartsWith(x, "... and "))

\* C10: with k non-exempt images lacking alt text, missing_alt_images holds
\* their k resolved URLs in document order and missing_alt_count is k; for
\* k >= 1 there is one issue stating k and one detail line for each of the
\* first min(k, 5) URLs, followed by "... and k-5 more" exactly when k > 5;
\* for k = 0 the rule adds nothing.
C10_ImageAltRule ==
    Analyzed =>
      LET doc == AnalyzedDoc
          r == AnalyzedReport
          idx == Ascending(NonExemptMissing(doc))
          k == Len(idx)
          shown == IF k < 5 THEN k ELSE 5
          resolved == [m \in 1..k |-> urljoin("https://example.com", doc.imgs[idx[m]].src)]
      IN  /\ r.missing_alt_count = k
          /\ r.missing_alt_images = resolved
          /\ k = 0 => ImageIssues(r) = <<>> /\ ImageDetailLines(r) = <<>>
          /\ k >= 1 =>
               /\ ImageIssues(r) = <<ToString(k) \o " images missing alt">>
               /\ Len(ImageDetailLines(r)) = shown + (IF k > 5 THEN 1 ELSE 0)
               /\ \A m \in 1..shown :
                    ImageDetailLines(r)[m] = "Image missing alt: " \o resolved[m]
               /\ k > 5 => ImageDetailLines(r)[shown + 1] =
                             "... and " \o ToString(k - 5) \o " more"

\* six images lack alt text, among exempt ones: five URLs and "... and 1 more"
C10_Witness ==
    /\ Analyzed
    /\ AnalyzedReport.missing_alt_count = 6
    /\ Len(AnalyzedDoc.imgs) = 6
    /\ Len(ImageDetailLines(AnalyzedReport)) = 6
    /\ ImageDetailLines(AnalyzedReport)[6] = "... and 1 more"

BreadcrumbIssues(report) ==
    SelectSeq(report.issues, LAMBDA x : x = "Missing breadcrumb schema")

\* C13: a JSON-LD script with an empty or malformed body does not abort the
\* analysis (the scripts after it are scanned and the rules after the
\* breadcrumb rule still run); has_breadcrumb_schema is true exactly when
\* the text of some JSON-LD script contains "@type":"BreadcrumbList", and
\* the issue "Missing breadcrumb schema" is raised, once, exactly when it
\* is false.
C13_BreadcrumbSchemaTolerant ==
    Analyzed =>
      LET scripts == AnalyzedDoc.scripts
          r == AnalyzedReport
          some == \E k \in 1..Len(scripts) :
                      /\ scripts[k] # None
                      /\ Contains(scripts[k], "\"@type\":\"BreadcrumbList\"")
      IN  /\ r.has_breadcrumb_schema = some
          /\ some => BreadcrumbIssues(r) = <<>>
          /\ ~some => /\ BreadcrumbIssues(r) = <<"Missing breadcrumb schema">>
                      /\ r.issues_detail[Len(r.issues_detail)] =
                           "Missing breadcrumb schema (JSON-LD)"
          /\ r.has_breadcrumb_html
          /\ r.status = (IF Len(r.issues) = 0 THEN "OK" ELSE "ISSUE")

\* an empty script and a truncated one stand before the BreadcrumbList
\* script, which is still found
C13_Witness ==
    /\ Analyzed
    /\ Len(AnalyzedDoc.scripts) = 3
    /\ AnalyzedDoc.scripts[1] = None
    /\ AnalyzedDoc.scripts[2] = "{\"@context\":"
    /\ AnalyzedDoc.scripts[3] = BreadcrumbJson
    /\ AnalyzedReport.has_breadcrumb_schema
    /\ AnalyzedReport.status = "OK"

(***************************************************************************)
(* Discovery: partial results survive a stop                               *)
(***************************************************************************)
\* the stop conditions: an exception on request, a non-success status, a
\* non-JSON or non-list payload, an empty list
IsStopResponse(response) ==
    IF response.raised \/ response.status >= 400 THEN TRUE
    ELSE IF ~response.body.json THEN TRUE
    ELSE IF ~response.body.list THEN TRUE
    ELSE response.body.items = <<>>

RECURSIVE IsSubsequence(_, _)
IsSubsequence(a, b) ==
    IF Len(a) = 0 THEN TRUE
    ELSE IF Len(b) = 0 THEN FALSE
    ELSE IF Head(a) = Head(b) THEN IsSubsequence(Tail(a), Tail(b))
    ELSE IsSubsequence(a, Tail(b))

RetrievedLinks ==
    Flatten([r \in 1..Len(retrieved) |->
               [k \in 1..Len(retrieved[r].items) |->
                  [url |-> retrieved[r].items[k].link, type |-> retrieved[r].type]]])

ReturnedLinks == [k \in 1..Len(urls) |-> [url |-> urls[k].url, type |-> urls[k].type]]

\* C6: pagination of a collection stops at the first page that is empty,
\* fails, is malformed or raises (the next request, if any, is page 1 of the
\* next collection); the items of every page retrieved before a stop stay in
\* the returned list in retrieval order, posts before pages; and when the
\* function returns, both collections have been queried.
C6_PartialResultsKept ==
    /\ \A j \in 1..Len(queried) :
         IsStopResponse(queried[j].response) =>
           /\ \A k \in (j + 1)..Len(queried) : queried[k].endpoint > queried[j].endpoint
           /\ j < Len(queried) => /\ queried[j + 1].endpoint = queried[j].endpoint + 1
                                  /\ queried[j + 1].page = 1
           /\ j = Len(queried) => endpoint = queried[j].endpoint + 1
    /\ IsSubsequence(RetrievedLinks, ReturnedLinks)
    /\ \A a, b \in 1..Len(urls) : a < b /\ urls[a].type = "page" => urls[b].type = "page"
    /\ pc = "returned" => \A e \in 1..Len(endpoints) : \E j \in 1..Len(queried) :
                              queried[j].endpoint = e

\* posts stopped on a malformed second page after a first page of items, the
\* pages collection was still queried and gave items, and both are returned
C6_Witness ==
    /\ pc = "returned"
    /\ \E j \in 1..Len(queried) :
         /\ queried[j].endpoint = 1 /\ queried[j].page = 2
         /\ ~queried[j].response.raised
         /\ ~queried[j].response.body.json
    /\ \E a, b \in 1..Len(urls) : urls[a].type = "post" /\ urls[b].type = "page"
    /\ Len(retrieved) >= 2

=============================================================================
